---- MODULE Spec2Model ----
(***************************************************************************)
(* State-machine model of tensorflow_quantum/python/optimizers/            *)
(* spsa_minimizer.py: the SPSA minimizer `minimize`, its loop condition    *)
(* `_cond`, loop body `_body` and the single SPSA step `_spsa_once`.       *)
(*                                                                         *)
(* Numbers.  The code computes in float32.  The model computes with exact  *)
(* extended rationals <<n, d>> (d >= 0, lowest terms): <<1,0>> is +inf,    *)
(* <<-1,0>> is -inf and <<0,0>> is NaN, with the IEEE rules for            *)
(* comparisons (every comparison with NaN is false) and for inf - inf.     *)
(* Rounding and signed zeros are not modelled.                             *)
(***************************************************************************)
EXTENDS Integers, Sequences, FiniteSets, TLC

VARIABLES
    args,        \* the arguments of the running minimize call
    state,       \* the SPSAOptimizerResults tuple of tf.Variables
    generator,   \* the random source chosen by minimize, and its position
    pc,          \* control position inside minimize
    frame,       \* the locals of _spsa_once
    calls,       \* the objective calls made by the running minimize call
    objective,   \* values a position-deterministic objective has fixed
    stream,      \* the outputs of Generator.from_seed(seed), as far as drawn
    tf_random,   \* number of draws made from the process-wide tf.random
    traj,        \* <<position, objective_value>> after init and each iteration
    draws,       \* the perturbation vectors drawn by the running call
    run,         \* 1 for the first minimize call, 2 for the repeated one
    first        \* what the first call produced, kept for the comparison

vars == <<args, state, generator, pc, frame, calls, objective, stream,
          tf_random, traj, draws, run, first>>

----------------------------------------------------------------------------
(* Bounds of the model *)

\* largest max_iterations passed to minimize
MaxIterations == 2
\* draws other callers make from tf.random between two minimize calls
MaxOtherDraws == 1

----------------------------------------------------------------------------
(* float arithmetic, as extended rationals *)

AbsI(i) == IF i < 0 THEN -i ELSE i

SignI(i) == IF i < 0 THEN -1 ELSE IF i > 0 THEN 1 ELSE 0

\* the arithmetic is written as functions, which take their arguments by value
Ext == Int \X Nat

GCD[a \in Nat, b \in Nat] == IF b = 0 THEN a ELSE GCD[b, a % b]

Norm[n \in Int, d \in Int] ==
    IF d = 0 THEN <<SignI(n), 0>>
    ELSE LET g == GCD[AbsI(n), AbsI(d)]
             s == IF d < 0 THEN -1 ELSE 1
         IN  <<(s * n) \div g, (s * d) \div g>>

R(i) == <<i, 1>>

Inf == <<1, 0>>

NaN == <<0, 0>>

IsNaN(a) == a = NaN

IsFinite(a) == a[2] # 0

Neg[a \in Ext] == <<-a[1], a[2]>>

Add[a \in Ext, b \in Ext] ==
    IF a[2] = 0 /\ b[2] = 0
    THEN IF a = b THEN a ELSE NaN
    ELSE Norm[a[1] * b[2] + b[1] * a[2], a[2] * b[2]]

Sub[a \in Ext, b \in Ext] == Add[a, Neg[b]]

Mul[a \in Ext, b \in Ext] == Norm[a[1] * b[1], a[2] * b[2]]

Inv[a \in Ext] == Norm[a[2], a[1]]

Div[a \in Ext, b \in Ext] == Mul[a, Inv[b]]

AbsR[a \in Ext] == <<AbsI(a[1]), a[2]>>

Lt[a \in Ext, b \in Ext] ==
    /\ ~IsNaN(a)
    /\ ~IsNaN(b)
    /\ IF a[2] = 0 /\ b[2] = 0 THEN a[1] < b[1]
       ELSE a[1] * b[2] < b[1] * a[2]

Ge[a \in Ext, b \in Ext] == ~IsNaN(a) /\ ~IsNaN(b) /\ ~Lt[a, b]

Le[a \in Ext, b \in Ext] == Ge[b, a]

Pow[a \in Ext, e \in Nat] == IF e = 0 THEN R(1) ELSE Mul[a, Pow[a, e - 1]]

\* elementwise tensor arithmetic on the position vector
VSub(p, q) == [i \in DOMAIN p |-> Sub[p[i], q[i]]]

VAdd(p, q) == [i \in DOMAIN p |-> Add[p[i], q[i]]]

VScale(c, v) == [i \in DOMAIN v |-> Mul[c, v[i]]]

----------------------------------------------------------------------------
(* The inputs of minimize *)

\* seed=None is the empty tuple, seed=k the tuple <<k>>
NoSeed == <<>>

InitialPositions == {<<R(1)>>, <<R(0), R(1)>>}

Tolerances == {R(-1), R(0), R(1)}

\* alpha and gamma; the decay exponents are naturals so that ** stays rational
Exponents == {0, 1}

AllowedIncreases == {R(0), R(1)}

Seeds == {NoSeed, <<0>>}

\* the values the objective function can return
ObjectiveValues == {R(0), R(1)}

\* allowed_increase only matters under blocking, the two schedules decay
\* together or not at all, the two-parameter problem runs one iteration, and
\* the negative tolerance is tried without blocking
Arguments ==
    {a \in [initial_position : InitialPositions,
            tolerance        : Tolerances,
            max_iterations   : -1 .. MaxIterations,
            alpha            : Exponents,
            lr               : {R(1)},
            perturb          : {R(1)},
            gamma            : Exponents,
            blocking         : BOOLEAN,
            allowed_increase : AllowedIncreases,
            seed             : Seeds,
            noisy            : BOOLEAN] :
        /\ a.alpha = a.gamma
        /\ ~a.blocking => a.allowed_increase = R(0)
        /\ Len(a.initial_position) > 1 => a.max_iterations <= 1
        /\ a.tolerance = R(-1) => ~a.blocking}

----------------------------------------------------------------------------
(* minimize: the random source, the initial state, the schedule *)

\* mutant: the seed is ignored and every call draws from tf.random
GeneratorIgnoresSeed(seed) == [kind |-> "tf.random", index |-> 0]

\* tf.random.Generator.from_seed(seed) when a seed is given, else tf.random
Generator(seed) ==
    IF seed # NoSeed
    THEN [kind |-> "from_seed", index |-> 0]
    ELSE [kind |-> "tf.random", index |-> 0]

\* mutant: the previous objective value starts at 0 instead of +inf
initial_state_zero_previous(a) ==
    [converged                          |-> FALSE,
     num_iterations                     |-> 0,
     num_objective_evaluations          |-> 0,
     position                           |-> a.initial_position,
     objective_value                    |-> R(0),
     objective_value_previous_iteration |-> R(0),
     tolerance                          |-> a.tolerance,
     lr                                 |-> a.lr,
     alpha                              |-> a.alpha,
     perturb                            |-> a.perturb,
     gamma                              |-> a.gamma,
     blocking                           |-> a.blocking,
     allowed_increase                   |-> a.allowed_increase]

_get_initial_state(a) ==
    [converged                          |-> FALSE,
     num_iterations                     |-> 0,
     num_objective_evaluations          |-> 0,
     position                           |-> a.initial_position,
     objective_value                    |-> R(0),
     objective_value_previous_iteration |-> Inf,
     tolerance                          |-> a.tolerance,
     lr                                 |-> a.lr,
     alpha                              |-> a.alpha,
     perturb                            |-> a.perturb,
     gamma                              |-> a.gamma,
     blocking                           |-> a.blocking,
     allowed_increase                   |-> a.allowed_increase]

\* mutant: the budget test is off by one
cond_inclusive(s, max_iterations) ==
    (s.num_iterations <= max_iterations) /\ (~s.converged)

\* mutant: the loop does not stop on convergence
cond_ignores_converged(s, max_iterations) ==
    s.num_iterations < max_iterations

\* continue if iterations remain and the stopping condition is not met
_cond(s, max_iterations) ==
    (s.num_iterations < max_iterations) /\ (~s.converged)

\* mutant: the learning rate decays in place, from the previous state.lr
new_lr_in_place(lr_init, s, max_iterations) ==
    Div[s.lr,
        Pow[Add[R(s.num_iterations + 1), Mul[<<1, 100>>, R(max_iterations)]],
            s.alpha]]

\* lr_init / ((num_iterations + 1) + 0.01 * max_iterations) ** alpha
new_lr(lr_init, s, max_iterations) ==
    Div[lr_init,
        Pow[Add[R(s.num_iterations + 1), Mul[<<1, 100>>, R(max_iterations)]],
            s.alpha]]

\* perturb_init / (num_iterations + 1) ** gamma
new_perturb(perturb_init, s) ==
    Div[perturb_init, Pow[R(s.num_iterations + 1), s.gamma]]

\* 2 * uniform(minval=0, maxval=2, int32) - 1, cast to float32
delta_shift_of(u) == [i \in DOMAIN u |-> R(2 * u[i] - 1)]

Uniform(shape) == [1 .. shape -> {0, 1}]

\* (v_p - v_m) / (2 * perturb) * delta_shift
gradient_estimate(s, f) ==
    VScale(Div[Sub[f.v_p, f.v_m], Mul[R(2), s.perturb]], f.delta_shift)

\* lr * gradient_estimate
update_of(s, f) == VScale(s.lr, gradient_estimate(s, f))

\* mutant: the candidate evaluation is counted too
CountEvaluationsAll(n) == n + 3

\* mutant: the pair of perturbed evaluations is counted once
CountEvaluationsOnce(n) == n + 1

\* num_objective_evaluations.assign_add(2)
CountEvaluations(n) == n + 2

\* num_iterations.assign_add(1)
CountIteration(n) == n + 1

\* mutant: allowed_increase is left out of the comparison
AcceptsWithoutAllowance(s, current_obj) ==
    \/ Ge[s.objective_value_previous_iteration, current_obj]
    \/ ~s.blocking

\* the test that guards the three assignments of _spsa_once
Accepts(s, current_obj) ==
    \/ Ge[Add[s.objective_value_previous_iteration, s.allowed_increase],
          current_obj]
    \/ ~s.blocking

\* mutant: the convergence test is not strict
ConvergenceTestInclusive(s) ==
    Le[AbsR[Sub[s.objective_value, s.objective_value_previous_iteration]],
       s.tolerance]

\* mutant: the difference is compared without tf.abs
ConvergenceTestSigned(s) ==
    Lt[Sub[s.objective_value, s.objective_value_previous_iteration],
       s.tolerance]

\* abs(objective_value - objective_value_previous_iteration) < tolerance
ConvergenceTest(s) ==
    Lt[AbsR[Sub[s.objective_value, s.objective_value_previous_iteration]],
       s.tolerance]

----------------------------------------------------------------------------
(* The caller's objective function *)

\* the entry of the call log, and of the objective's table, for a call that
\* raised
Raised == <<>>

\* what a call at pos can return: anything for a noisy objective, what the
\* earlier call at pos did for a position-deterministic one
Returns(pos) ==
    IF ~args.noisy /\ pos \in DOMAIN objective
    THEN {objective[pos]} \ {Raised}
    ELSE ObjectiveValues

CanRaise(pos) ==
    IF ~args.noisy /\ pos \in DOMAIN objective
    THEN objective[pos] = Raised
    ELSE TRUE

Remember(pos, v) ==
    IF args.noisy THEN objective
    ELSE [p \in (DOMAIN objective) \cup {pos} |->
             IF p = pos THEN v ELSE objective[p]]

Called(pos, v) ==
    /\ calls' = Append(calls, [position |-> pos, value |-> v])
    /\ objective' = Remember(pos, v)

NoFrame ==
    [delta_shift |-> <<>>, v_m |-> NaN, v_p |-> NaN, update |-> <<>>,
     current_obj |-> NaN, accepted |-> FALSE]

NoFirst == [traj |-> <<>>, draws |-> <<>>, calls |-> <<>>, pc |-> ""]

\* the record of the state kept in traj
Snapshot(s) == s

\* mutant: the candidate is evaluated at position + update
EvaluationPointWrongSign ==
    CASE pc = "evaluate_initial" -> state.position
      [] pc = "v_m" ->
            VSub(state.position, VScale(state.perturb, frame.delta_shift))
      [] pc = "v_p" ->
            VAdd(state.position, VScale(state.perturb, frame.delta_shift))
      [] pc = "current_obj" -> VAdd(state.position, frame.update)
      [] OTHER -> <<>>

\* the point at which the objective is evaluated at each control position
EvaluationPoint ==
    CASE pc = "evaluate_initial" -> state.position
      [] pc = "v_m" ->
            VSub(state.position, VScale(state.perturb, frame.delta_shift))
      [] pc = "v_p" ->
            VAdd(state.position, VScale(state.perturb, frame.delta_shift))
      [] pc = "current_obj" -> VSub(state.position, frame.update)
      [] OTHER -> <<>>

Evaluating == pc \in {"evaluate_initial", "v_m", "v_p", "current_obj"}

----------------------------------------------------------------------------
(* The state machine *)

Init ==
    /\ args \in Arguments
    /\ state = _get_initial_state(args)
    /\ generator = Generator(args.seed)
    /\ pc = "evaluate_initial"
    /\ frame = NoFrame
    /\ calls = <<>>
    /\ objective = <<>>
    /\ stream = <<>>
    /\ tf_random = 0
    /\ traj = <<>>
    /\ draws = <<>>
    /\ run = 1
    /\ first = NoFirst

\* initial_state.objective_value.assign(expectation_value_function(position))
EvaluateInitial ==
    /\ pc = "evaluate_initial"
    /\ \E v \in Returns(EvaluationPoint) :
          /\ Called(EvaluationPoint, v)
          /\ state' = [state EXCEPT !.objective_value = v]
          /\ traj' = <<Snapshot(state')>>
    /\ pc' = "cond"
    /\ UNCHANGED <<args, generator, frame, stream, tf_random, draws, run,
                   first>>

\* tf.while_loop evaluates _cond and either runs _body or returns the state
Cond ==
    /\ pc = "cond"
    /\ pc' = IF _cond(state, args.max_iterations) THEN "body" ELSE "done"
    /\ UNCHANGED <<args, state, generator, frame, calls, objective, stream,
                   tf_random, traj, draws, run, first>>

\* _body: state.lr.assign(new_lr); state.perturb.assign(new_perturb)
Schedule ==
    /\ pc = "body"
    /\ state' = [state EXCEPT
                   !.lr = new_lr(args.lr, state, args.max_iterations),
                   !.perturb = new_perturb(args.perturb, state)]
    /\ pc' = "draw"
    /\ UNCHANGED <<args, generator, frame, calls, objective, stream,
                   tf_random, traj, draws, run, first>>

\* _spsa_once: delta_shift = 2 * generator.uniform(...) - 1
Draw ==
    /\ pc = "draw"
    /\ \E u \in Uniform(Len(state.position)) :
          /\ IF generator.kind = "from_seed"
             THEN /\ generator.index < Len(stream) =>
                        u = stream[generator.index + 1]
                  /\ stream' = IF generator.index < Len(stream)
                               THEN stream ELSE Append(stream, u)
                  /\ UNCHANGED tf_random
             ELSE /\ tf_random' = tf_random + 1
                  /\ UNCHANGED stream
          /\ frame' = [frame EXCEPT !.delta_shift = delta_shift_of(u)]
          /\ draws' = Append(draws, delta_shift_of(u))
    /\ generator' = [generator EXCEPT !.index = @ + 1]
    /\ pc' = "v_m"
    /\ UNCHANGED <<args, state, calls, objective, traj, run, first>>

\* v_m = expectation_value_function(position - perturb * delta_shift)
EvaluateMinus ==
    /\ pc = "v_m"
    /\ \E v \in Returns(EvaluationPoint) :
          /\ Called(EvaluationPoint, v)
          /\ frame' = [frame EXCEPT !.v_m = v]
    /\ pc' = "v_p"
    /\ UNCHANGED <<args, state, generator, stream, tf_random, traj, draws,
                   run, first>>

\* v_p = expectation_value_function(position + perturb * delta_shift)
EvaluatePlus ==
    /\ pc = "v_p"
    /\ \E v \in Returns(EvaluationPoint) :
          /\ Called(EvaluationPoint, v)
          /\ frame' = [frame EXCEPT !.v_p = v]
    /\ pc' = "estimate"
    /\ UNCHANGED <<args, state, generator, stream, tf_random, traj, draws,
                   run, first>>

\* gradient_estimate, update, num_objective_evaluations.assign_add(2)
Estimate ==
    /\ pc = "estimate"
    /\ frame' = [frame EXCEPT !.update = update_of(state, frame)]
    /\ state' = [state EXCEPT !.num_objective_evaluations =
                                  CountEvaluations(@)]
    /\ pc' = "current_obj"
    /\ UNCHANGED <<args, generator, calls, objective, stream, tf_random,
                   traj, draws, run, first>>

\* current_obj = expectation_value_function(position - update)
EvaluateCandidate ==
    /\ pc = "current_obj"
    /\ \E v \in Returns(EvaluationPoint) :
          /\ Called(EvaluationPoint, v)
          /\ frame' = [frame EXCEPT !.current_obj = v]
    /\ pc' = "accept"
    /\ UNCHANGED <<args, state, generator, stream, tf_random, traj, draws,
                   run, first>>

\* mutant: the position is assigned outside the if statement
AcceptMovesAlways ==
    /\ pc = "accept"
    /\ IF Accepts(state, frame.current_obj)
       THEN /\ state' = [state EXCEPT
                   !.position = VSub(state.position, frame.update),
                   !.objective_value_previous_iteration =
                        state.objective_value,
                   !.objective_value = frame.current_obj]
            /\ frame' = [frame EXCEPT !.accepted = TRUE]
       ELSE /\ state' = [state EXCEPT
                   !.position = VSub(state.position, frame.update)]
            /\ frame' = [frame EXCEPT !.accepted = FALSE]
    /\ pc' = "increment"
    /\ UNCHANGED <<args, generator, calls, objective, stream, tf_random,
                   traj, draws, run, first>>

\* mutant: the previous objective value is shifted outside the if statement
AcceptShiftsAlways ==
    /\ pc = "accept"
    /\ IF Accepts(state, frame.current_obj)
       THEN /\ state' = [state EXCEPT
                   !.position = VSub(state.position, frame.update),
                   !.objective_value_previous_iteration =
                        state.objective_value,
                   !.objective_value = frame.current_obj]
            /\ frame' = [frame EXCEPT !.accepted = TRUE]
       ELSE /\ state' = [state EXCEPT
                   !.objective_value_previous_iteration =
                        state.objective_value]
            /\ frame' = [frame EXCEPT !.accepted = FALSE]
    /\ pc' = "increment"
    /\ UNCHANGED <<args, generator, calls, objective, stream, tf_random,
                   traj, draws, run, first>>

\* the if statement of _spsa_once and its three assignments
Accept ==
    /\ pc = "accept"
    /\ IF Accepts(state, frame.current_obj)
       THEN /\ state' = [state EXCEPT
                   !.position = VSub(state.position, frame.update),
                   !.objective_value_previous_iteration =
                        state.objective_value,
                   !.objective_value = frame.current_obj]
            /\ frame' = [frame EXCEPT !.accepted = TRUE]
       ELSE /\ UNCHANGED state
            /\ frame' = [frame EXCEPT !.accepted = FALSE]
    /\ pc' = "increment"
    /\ UNCHANGED <<args, generator, calls, objective, stream, tf_random,
                   traj, draws, run, first>>

\* _body: state.num_iterations.assign_add(1)
Increment ==
    /\ pc = "increment"
    /\ state' = [state EXCEPT !.num_iterations = CountIteration(@)]
    /\ pc' = "converge"
    /\ UNCHANGED <<args, generator, frame, calls, objective, stream,
                   tf_random, traj, draws, run, first>>

\* _body: state.converged.assign(abs(...) < tolerance); return [state]
Converge ==
    /\ pc = "converge"
    /\ state' = [state EXCEPT !.converged = ConvergenceTest(state)]
    /\ traj' = Append(traj, Snapshot(state'))
    /\ frame' = NoFrame
    /\ pc' = "cond"
    /\ UNCHANGED <<args, generator, calls, objective, stream, tf_random,
                   draws, run, first>>

\* the objective raises: the exception leaves minimize, nothing is returned
ObjectiveRaises ==
    /\ Evaluating
    /\ CanRaise(EvaluationPoint)
    /\ Called(EvaluationPoint, Raised)
    /\ pc' = "raised"
    /\ UNCHANGED <<args, state, generator, frame, stream, tf_random, traj,
                   draws, run, first>>

Next ==
    \/ EvaluateInitial
    \/ Cond
    \/ Schedule
    \/ Draw
    \/ EvaluateMinus
    \/ EvaluatePlus
    \/ Estimate
    \/ EvaluateCandidate
    \/ Accept
    \/ Increment
    \/ Converge
    \/ ObjectiveRaises

Spec == Init /\ [][Next]_vars

\* the loop is sequential code: whatever step is enabled is taken
FairSpec == Init /\ [][Next]_vars /\ WF_vars(Next)

----------------------------------------------------------------------------
(* A second minimize call with the same arguments, for the seeded runs *)

Terminal == pc \in {"done", "raised"}

\* draws this call has made from the process-wide tf.random
OwnGlobalDraws == IF generator.kind = "tf.random" THEN generator.index ELSE 0

\* between the two calls, another caller draws from tf.random
OtherCall ==
    /\ Terminal
    /\ run = 1
    /\ tf_random < OwnGlobalDraws + MaxOtherDraws
    /\ tf_random' = tf_random + 1
    /\ UNCHANGED <<args, state, generator, pc, frame, calls, objective,
                   stream, traj, draws, run, first>>

\* minimize is called again with the same arguments and objective
Again ==
    /\ Terminal
    /\ run = 1
    /\ first' = [traj |-> traj, draws |-> draws, calls |-> calls, pc |-> pc]
    /\ run' = 2
    /\ state' = _get_initial_state(args)
    /\ generator' = Generator(args.seed)
    /\ pc' = "evaluate_initial"
    /\ frame' = NoFrame
    /\ calls' = <<>>
    /\ traj' = <<>>
    /\ draws' = <<>>
    /\ UNCHANGED <<args, objective, stream, tf_random>>

\* the repeated call is studied on a position-deterministic objective
RerunArguments ==
    {a \in Arguments :
        /\ ~a.noisy
        /\ a.max_iterations >= 1
        /\ a.tolerance = R(1)
        /\ a.allowed_increase = R(0)}

InitRerun == Init /\ args \in RerunArguments

NextRerun == Next \/ OtherCall \/ Again

SpecRerun == InitRerun /\ [][NextRerun]_vars

----------------------------------------------------------------------------
(* Properties *)

IsPrefix(s, t) ==
    /\ Len(s) <= Len(t)
    /\ \A i \in 1 .. Len(s) : s[i] = t[i]

\* the state as it was after initialization or the last completed iteration
LastCompleted == traj[Len(traj)]

\* the states in which no iteration is in progress
BetweenIterations == pc \in {"evaluate_initial", "cond", "body", "done"}

InvalidArguments == args.max_iterations < 0 \/ Lt[args.tolerance, R(0)]

\* C1: a minimize call with a negative max_iterations or a negative tolerance
\* never calls the objective function and never returns an optimizer state.
C1_InvalidArgumentRejected ==
    InvalidArguments => (calls = <<>> /\ pc # "done")

\* C2: with blocking=true and allowed_increase=0, right after an accepted
\* step objective_value <= objective_value_previous_iteration.
C2_BlockingNonRegression ==
    (/\ pc = "increment"
     /\ frame.accepted
     /\ state.blocking
     /\ state.allowed_increase = R(0))
    => Le[state.objective_value, state.objective_value_previous_iteration]

C4_IterationsBounded ==
    [][/\ state'.num_iterations <= args.max_iterations
       /\ \/ state'.num_iterations = state.num_iterations
          \/ /\ pc = "increment"
             /\ state'.num_iterations = state.num_iterations + 1]_vars

\* C5: every run whose objective calls return ends in the Terminal state
\* (a raising call ends the run as well), and no iteration is started once
\* num_iterations has reached max_iterations.
C5_Terminates ==
    /\ <>Terminal
    /\ [][pc' = "body" => state.num_iterations < args.max_iterations]_vars

C5_Witness ==
    /\ pc = "done"
    /\ ~state.converged
    /\ state.num_iterations = args.max_iterations
    /\ state.num_iterations >= 2

C8_ConvergedIsFinal ==
    [][state.converged => (state' = state /\ calls' = calls)]_vars

C8_Witness ==
    /\ pc = "done"
    /\ state.converged
    /\ state.num_iterations < args.max_iterations

\* C9, as claimed: when the objective raises during an iteration, every
\* field of the optimizer state equals its value at the end of the last
\* completed iteration.
C9_StateAsLastCompleted ==
    (pc = "raised" /\ traj # <<>>) => state = LastCompleted

\* C9, amended: when the objective raises during an iteration, the raising
\* call is the last call (no retry); position, objective_value,
\* objective_value_previous_iteration, num_iterations, converged and the
\* configuration fields equal their values at the end of the last completed
\* iteration; lr and perturb are already those of the failed iteration, and
\* num_objective_evaluations is 2 higher when the candidate evaluation raised.
C9_StateAtFailure ==
    (pc = "raised" /\ traj # <<>>) =>
        /\ calls[Len(calls)].value = Raised
        /\ \A i \in 1 .. Len(calls) - 1 : calls[i].value # Raised
        /\ state = [LastCompleted EXCEPT
              !.lr = new_lr(args.lr, LastCompleted, args.max_iterations),
              !.perturb = new_perturb(args.perturb, LastCompleted),
              !.num_objective_evaluations =
                  IF frame.update # <<>> THEN @ + 2 ELSE @]

C9_Witness ==
    /\ pc = "raised"
    /\ traj # <<>>
    /\ state.num_iterations >= 1
    /\ state.lr # LastCompleted.lr
    /\ state.num_objective_evaluations =
           LastCompleted.num_objective_evaluations + 2

\* C10: a second minimize call with the same arguments and the same seed, on
\* a position-deterministic objective, draws the perturbation vectors of the
\* first call, makes the same objective calls, passes through the same
\* states after every iteration and ends the same way, whatever was drawn
\* from tf.random in between.
C10_SeededRunsAgree ==
    (run = 2 /\ args.seed # NoSeed) =>
        /\ IsPrefix(draws, first.draws)
        /\ IsPrefix(calls, first.calls)
        /\ IsPrefix(traj, first.traj)
        /\ Terminal =>
              /\ pc = first.pc
              /\ draws = first.draws
              /\ calls = first.calls
              /\ traj = first.traj

C10_Witness ==
    /\ run = 2
    /\ args.seed # NoSeed
    /\ pc = "done"
    /\ tf_random > 0
    /\ state.num_iterations >= 2
    /\ draws[1] # draws[2]
    /\ traj[2].position # traj[3].position

\* C11, as claimed: before the first iteration
\* objective_value_previous_iteration is +infinity, and after every completed
\* iteration, accepted or rejected, it is the objective_value of the end of
\* the iteration before.
C11_PreviousIsOneIterationAgo ==
    traj # <<>> =>
        /\ traj[1].objective_value_previous_iteration = Inf
        /\ \A k \in 2 .. Len(traj) :
              traj[k].objective_value_previous_iteration =
                  traj[k - 1].objective_value

\* C12: for a position-deterministic objective f, objective_value =
\* f(position) after initialization, after every completed iteration and in
\* the returned state.
C12_ObjectiveAtPosition ==
    (~args.noisy /\ pc \in {"cond", "body", "done"}) =>
        /\ state.position \in DOMAIN objective
        /\ objective[state.position] = state.objective_value

C12_Witness ==
    /\ ~args.noisy
    /\ pc = "done"
    /\ state.num_iterations >= 2
    /\ state.position # args.initial_position
    /\ state.objective_value # traj[1].objective_value

\* the supremum norm of p - q is below tol
SupNormBelow(p, q, tol) ==
    \A i \in DOMAIN p : Lt[AbsR[Sub[p[i], q[i]]], tol]

\* C13, as claimed: after an iteration the loop is stopped by convergence
\* exactly when the supremum norm of the difference between the new and the
\* old position is below tolerance.
C13_StopsOnPositionChange ==
    (pc = "cond" /\ Len(traj) >= 2) =>
        (state.converged <=>
            SupNormBelow(traj[Len(traj)].position,
                         traj[Len(traj) - 1].position,
                         state.tolerance))

LrAt(k) ==
    Div[args.lr,
        Pow[Add[R(k + 1), Norm[args.max_iterations, 100]], args.alpha]]

PerturbAt(k) == Div[args.perturb, Pow[R(k + 1), args.gamma]]

\* C18: throughout the iteration with 0-based index k, lr is
\* lr_initial / (k + 1 + 0.01 * max_iterations) ^ alpha and perturb is
\* perturb_initial / (k + 1) ^ gamma, computed from the caller's initial
\* values; the perturbed points and the update of that iteration are built
\* from them, and the returned lr and perturb are those of the last executed
\* iteration.
C18_ScheduleClosedForm ==
    LET k == Len(traj) - 1 IN
    /\ pc \in {"draw", "v_m", "v_p", "estimate", "current_obj", "accept",
               "increment", "converge"} =>
          /\ state.lr = LrAt(k)
          /\ state.perturb = PerturbAt(k)
    /\ pc = "v_p" =>
          calls[Len(calls)].position =
              VSub(state.position, VScale(PerturbAt(k), frame.delta_shift))
    /\ pc = "current_obj" =>
          frame.update =
              VScale(LrAt(k),
                     VScale(Div[Sub[frame.v_p, frame.v_m],
                                Mul[R(2), PerturbAt(k)]],
                            frame.delta_shift))
    /\ (pc = "done" /\ state.num_iterations >= 1) =>
          /\ state.lr = LrAt(state.num_iterations - 1)
          /\ state.perturb = PerturbAt(state.num_iterations - 1)

C18_Witness ==
    /\ pc = "done"
    /\ state.num_iterations = 2
    /\ args.alpha = 1
    /\ args.max_iterations = 2
    /\ state.lr = <<50, 101>>
    /\ state.perturb = <<1, 2>>


\* C19, as claimed: with tolerance = 0 the convergence test never succeeds,
\* so every run that returns has executed exactly max_iterations iterations
\* and returns converged = false.
C19_ZeroToleranceRunsToBudget ==
    (pc = "done" /\ state.tolerance = R(0)) =>
        /\ state.num_iterations = args.max_iterations
        /\ ~state.converged

====
